---- MODULE Spec2Model ----
(***************************************************************************)
(* State-machine model of the fetch orchestration of                       *)
(* puppeteer-real-browser-hono: the HTTP handler of src/src/index.ts and   *)
(* the browser session, page fetches, content-ready race and retry policy  *)
(* of src/src/lib.ts.  JavaScript runs each stretch of code between two    *)
(* awaits atomically on one thread, so one action is one such stretch      *)
(* together with the promise continuations it triggers.                    *)
(* src/src/semaphore.ts and src/src/cache.ts are imported by the sources   *)
(* but are not among them; they are modelled from the specification.       *)
(***************************************************************************)
EXTENDS Integers, Sequences, FiniteSets, TLC

\* ------------------------------------------------------------------ bounds
\* Number of HTTP requests that arrive in a run of the concurrency model.
NumReq == 2
\* Permit capacity K of pageSemaphore (the deployment default is 5).
Capacity == 1
\* Number N of fetches (urls of all requests together) started in a run.
MaxFetches == 3
\* Number of failing outcomes (rejections, timeouts) in a run of the
\* concurrency model.
MaxFaults == 1
\* Capacity of the LRU response cache.
CacheMax == 1
\* Largest attempt number for which the backoff delay is computed.
MaxAttempt == 14

\* ------------------------------------------------------- program constants
\* fetchSingleUrlWithRetry(..., maxRetries: number = 3)
maxRetries == 3
\* Math.min(1000 * Math.pow(2, attempt - 1), 5000)
BackoffBase == 1000
BackoffCap == 5000
\* Time to live of a cache entry, in ticks of the clock (five minutes).
TTL == 1

\* The cache model lets one more request arrive.
Req == 1..(NumReq + 1)

\* --------------------------------------------------------- query strings
\* A query-string value is a sequence of characters; a missing parameter is
\* the JavaScript value undefined.
Undefined == <<"undefined">>
StrFalse == <<"f", "a", "l", "s", "e">>
StrZero == <<"0">>

\* String.prototype.toLowerCase on the characters the model uses.
LowerChar(c) ==
  CASE c = "F" -> "f"
    [] c = "A" -> "a"
    [] c = "L" -> "l"
    [] c = "S" -> "s"
    [] c = "E" -> "e"
    [] OTHER -> c

toLowerCase(s) == [i \in DOMAIN s |-> LowerChar(s[i])]

\* Values of the raw parameter that requests carry.
RawParams == {Undefined, <<"1">>, <<"F", "a", "l", "s", "e">>}
\* Values of the adblock parameter that requests carry.
AdblockParams == {Undefined, <<"0">>, <<"F", "A", "L", "S", "E">>, <<"1">>}
\* Values of the selector parameter: missing, empty, or one of two selectors.
SelectorParams == {Undefined, <<>>, <<"a">>, <<"b">>}
\* Values of the url parameter: missing, one URL, or a list of URLs.
UrlList == <<"u1", "u2">>
NoUrl == [isArray |-> FALSE, items |-> <<>>]
UrlParams ==
  {NoUrl, [isArray |-> FALSE, items |-> <<"u1">>],
   [isArray |-> TRUE, items |-> UrlList]}
\* The remaining query parameters (...options), as a set of key/value pairs.
OptionParams == {{}}

Queries ==
  [url : UrlParams, selector : SelectorParams, raw : RawParams,
   adblock : AdblockParams, options : OptionParams]

\* Longest url list of a request.
MaxUrls == Len(UrlList)
Tasks == Req \X (1..MaxUrls)

shouldReturnRaw(rawParam) ==
  IF rawParam = Undefined
  THEN FALSE
  ELSE LET normalizedRawValue == toLowerCase(rawParam)
       IN normalizedRawValue # StrFalse /\ normalizedRawValue # StrZero

shouldEnableAdblock(adblockParam) ==
  IF adblockParam = Undefined
  THEN TRUE
  ELSE LET normalizedAdblockValue == toLowerCase(adblockParam)
       IN normalizedAdblockValue # StrFalse /\ normalizedAdblockValue # StrZero

\* JavaScript truthiness of an optional string: undefined and "" are falsy.
Truthy(s) == s # Undefined /\ s # <<>>

\* ------------------------------------------------------------- the state
VARIABLES
  req,              \* per request: handler position, parameters, response,
                    \* the ticks since it stored its result in the cache,
                    \* and whether its lookup met an expired entry
  fetch,            \* per request and url index: the fetch of that url
  permits,          \* pageSemaphore: permits available
  waiters,          \* pageSemaphore: FIFO queue of suspended acquire() calls
  pages,            \* pages open in the browser
  browserInstance,  \* lib.ts module variable; 0 is null
  blocker,          \* lib.ts module variable; 0 is null
  connects,         \* number of connect() calls made so far
  blockerLoads,     \* number of blocker engines loaded so far
  cache,            \* responseCache: entries, least recently used first
  faults,           \* failing outcomes the run may still take
  proc              \* process lifecycle: running, exited

vars ==
  <<req, fetch, permits, waiters, pages, browserInstance, blocker, connects,
    blockerLoads, cache, faults, proc>>

\* What a fetch returns: the html of a page or, in raw mode, the body of the
\* upstream response with its status.
NoContent ==
  [url |-> "", selector |-> Undefined, via |-> "none", status |-> 0]

\* The statuses of upstream responses: a success and an error.
UpstreamStatus == {200, 404}
NoError == [kind |-> "none", at |-> 0]
NoResp ==
  [kind |-> "none", status |-> 0, success |-> FALSE, fromCache |-> FALSE,
   data |-> <<>>, error |-> NoError]

NewReq ==
  [pc |-> "new", url |-> NoUrl, selector |-> Undefined, returnRaw |-> FALSE,
   adblockParam |-> Undefined, adblock |-> TRUE, options |-> {},
   browser |-> 0, blocker |-> 0, resp |-> NoResp, stored |-> 0,
   expired |-> FALSE]

NewFetch ==
  [pc |-> "none", attempt |-> 0, resp |-> "na", nav |-> "na", ok |-> FALSE,
   content |-> NoContent, err |-> NoError, stratErr |-> NoError,
   delays |-> <<>>, acquired |-> 0, released |-> 0, behind |-> 0,
   seen |-> FALSE]

\* n requests will arrive; f outcomes may fail; b is 0 for a fresh process
\* and 1 for one whose browser session an earlier request has initialized.
Start(n, f, b) ==
  /\ req = [r \in Req |-> IF r <= n THEN NewReq ELSE [NewReq EXCEPT !.pc = "never"]]
  /\ fetch = [t \in Tasks |-> NewFetch]
  /\ permits = Capacity
  /\ waiters = <<>>
  /\ pages = {}
  /\ browserInstance = b
  /\ blocker = b
  /\ connects = b
  /\ blockerLoads = b
  /\ cache = <<>>
  /\ faults = f
  /\ proc = "running"

Init == Start(NumReq, MaxFaults, 0)

\* ------------------------------------------------- pageSemaphore (spec 4.1)
\* The semaphore as a value: permits, the wait queue, and the fetches whose
\* acquire() the current step resolves.
Sem(p, w) == [permits |-> p, waiters |-> w, granted |-> {}]

\* acquire(): take a free permit, or join the end of the queue.
SemAcquire(sem, t) ==
  IF sem.permits > 0
  THEN [sem EXCEPT !.permits = @ - 1, !.granted = @ \cup {t}]
  ELSE [sem EXCEPT !.waiters = Append(@, t)]

\* A release() that hands the permit to the caller that came last.
SemReleaseLast(sem) ==
  IF sem.waiters # <<>>
  THEN [sem EXCEPT !.waiters = SubSeq(@, 1, Len(@) - 1),
                   !.granted = @ \cup {sem.waiters[Len(sem.waiters)]}]
  ELSE [sem EXCEPT !.permits = IF @ < Capacity THEN @ + 1 ELSE @]

\* release(): hand the permit to the longest-waiting caller, or return it.
SemRelease(sem) ==
  IF sem.waiters # <<>>
  THEN [sem EXCEPT !.waiters = Tail(@), !.granted = @ \cup {Head(sem.waiters)}]
  ELSE [sem EXCEPT !.permits = IF @ < Capacity THEN @ + 1 ELSE @]

\* acquire() called for the fetches ts[1], ts[2], ... in this order.
RECURSIVE SemAcquireAll(_, _)
SemAcquireAll(sem, ts) ==
  IF ts = <<>> THEN sem ELSE SemAcquireAll(SemAcquire(sem, Head(ts)), Tail(ts))

\* ------------------------------------------------- responseCache (spec 4.4)
\* The fingerprint of (url, options): the options are a set, so the order
\* in which the query named them does not matter.
CacheKey(url, cacheOptions) == [url |-> url, options |-> cacheOptions]

CacheIndex(c, key) == {i \in DOMAIN c : c[i].key = key}

CacheRemove(c, key) == SelectSeq(c, LAMBDA e : e.key # key)

\* A cache whose entries never expire.
CacheFreshForever(e) == TRUE

\* An entry records its age, the ticks since it was stored; an age above
\* the TTL is not counted further.
CacheFresh(e) == e.age <= TTL

\* get(key): a fresh entry is returned and becomes most recently used; an
\* expired entry is dropped and reads as absent.
CacheHit(c, key) == \E i \in CacheIndex(c, key) : CacheFresh(c[i])

\* An entry lies under the key, and its age is above the TTL.
CacheExpired(c, key) == \E i \in CacheIndex(c, key) : ~CacheFresh(c[i])

CacheValue(c, key) == c[CHOOSE i \in CacheIndex(c, key) : TRUE].value

CacheAfterGet(c, key) ==
  IF CacheIndex(c, key) = {}
  THEN c
  ELSE LET e == c[CHOOSE i \in CacheIndex(c, key) : TRUE]
       IN IF CacheFresh(e)
          THEN Append(CacheRemove(c, key), e)
          ELSE CacheRemove(c, key)

\* set(key, value): a fresh entry with a fresh timestamp, most recently
\* used; the least recently used entry is evicted when the cache is full.
CacheSet(c, key, value) ==
  LET rest == CacheRemove(c, key)
      room == IF Len(rest) >= CacheMax THEN Tail(rest) ELSE rest
  IN Append(room, [key |-> key, value |-> value, age |-> 0])

\* One tick of the clock.
CacheAged(c) ==
  [i \in DOMAIN c |-> [c[i] EXCEPT !.age = IF @ <= TTL THEN @ + 1 ELSE @]]

\* ------------------------------------------------------------- responses
\* c.json({success: false, error}, status)
JsonError(status, error) ==
  [NoResp EXCEPT !.kind = "json", !.status = status, !.error = error]

\* c.json({success: true, fromCache, data})
JsonSuccess(fromCache, data) ==
  [NoResp EXCEPT !.kind = "json", !.status = 200, !.success = TRUE,
                 !.fromCache = fromCache, !.data = data]

\* new Response(Buffer.from(rawResponse.body), {status, headers})
RawBytes(content) ==
  [NoResp EXCEPT !.kind = "raw", !.status = content.status,
                 !.data = <<content>>]

Message(text) == [kind |-> text, at |-> 0]

Respond(rq, resp) == [rq EXCEPT !.pc = "done", !.resp = resp]

\* A catch that forgets the status: c.json answers with 200.
CaughtWithoutStatus(rq, error) == Respond(rq, JsonError(200, error))

\* The catch of the handler: status 500 with the message of the error.
Caught(rq, error) == Respond(rq, JsonError(500, error))

\* --------------------------------------------------- starting the fetches
Range(seq) == {seq[i] : i \in DOMAIN seq}

TasksOf(r, rq) == [i \in DOMAIN rq.url.items |-> <<r, i>>]

\* The fetches whose acquire() resolved in this step go on to newPage();
\* behind records how many callers were waiting when the permit came.
Granted(f, sem) ==
  [t \in Tasks |->
    IF t \in sem.granted
    THEN [f[t] EXCEPT !.pc = "newPage", !.acquired = @ + 1,
                      !.behind = Len(sem.waiters)]
    ELSE f[t]]

\* getRawResponse refuses a url list after getBrowser() has returned.
RawRejectsList(rq) == rq.returnRaw /\ rq.url.isArray

\* After getBrowser() returned: getPageContent maps fetchSingleUrlWithRetry
\* over the urls, getRawResponse calls fetchRawResponse; each runs up to its
\* await of pageSemaphore.acquire().
SemAfterStart(r, rq) ==
  IF RawRejectsList(rq)
  THEN Sem(permits, waiters)
  ELSE SemAcquireAll(Sem(permits, waiters), TasksOf(r, rq))

FetchAfterStart(r, rq) ==
  IF RawRejectsList(rq)
  THEN fetch
  ELSE Granted(
         [t \in Tasks |->
           IF t \in Range(TasksOf(r, rq))
           THEN [NewFetch EXCEPT !.pc = "waiting", !.attempt = 1]
           ELSE fetch[t]],
         SemAfterStart(r, rq))

ReqAfterStart(rq) ==
  IF RawRejectsList(rq)
  THEN Caught(rq, Message("Raw response only supports a single URL"))
  ELSE [rq EXCEPT !.pc = "fetching"]

\* The fetches started so far, with those of the requests in getBrowser().
Started ==
  Cardinality({t \in Tasks :
    \/ fetch[t].pc # "none"
    \/ /\ req[t[1]].pc \in {"connect", "blockerLoad"}
       /\ t[2] <= Len(req[t[1]].url.items)})

\* A handler that ignores what the lookup returned.
ServesFromCacheNever(returnRaw, hit) == FALSE

\* if (!returnRaw) { if (result) { fromCache = true } else { ... } }
ServesFromCache(returnRaw, hit) == ~returnRaw /\ hit

\* ------------------------------------------------ app.get("/") (index.ts)
\* The handler from the arrival of the request to its first suspension.
HandleGet(r, q) ==
  /\ proc # "exited"
  /\ req[r].pc = "new"
  /\ \A p \in Req : p < r => req[p].pc # "new"
  /\ LET returnRaw == shouldReturnRaw(q.raw)
         enableAdblock == shouldEnableAdblock(q.adblock)
         cacheOptions == [options |-> q.options, adblock |-> enableAdblock]
         key == CacheKey(q.url, cacheOptions)
         rq0 == [req[r] EXCEPT !.url = q.url, !.selector = q.selector,
                               !.returnRaw = returnRaw,
                               !.adblockParam = q.adblock,
                               !.adblock = enableAdblock,
                               !.options = q.options]
         rq == [rq0 EXCEPT !.expired = CacheExpired(cache, key)]
         invalid ==
           IF q.url.items = <<>>
           THEN JsonError(200, Message("URL parameter is required"))
           ELSE IF returnRaw /\ q.selector # Undefined
           THEN JsonError(400,
                  Message("raw parameter cannot be used with selector"))
           ELSE IF returnRaw /\ q.url.isArray
           THEN JsonError(400,
                  Message("raw parameter only supports a single URL"))
           ELSE IF ~returnRaw /\ ~Truthy(q.selector)
           THEN JsonError(200, Message("selector parameter is required"))
           ELSE NoResp
     IN IF invalid # NoResp
        THEN /\ req' = [req EXCEPT ![r] = Respond(rq0, invalid)]
             /\ UNCHANGED <<fetch, permits, waiters, cache, connects>>
        ELSE /\ cache' = CacheAfterGet(cache, key)
             /\ IF ServesFromCache(returnRaw, CacheHit(cache, key))
                THEN /\ req' = [req EXCEPT ![r] =
                          Respond(rq, JsonSuccess(TRUE, CacheValue(cache, key)))]
                     /\ UNCHANGED <<fetch, permits, waiters, connects>>
                ELSE IF browserInstance = 0 \/ blocker = 0
                THEN \* getBrowser(): await connect(realBrowserOption)
                     /\ Started + Len(q.url.items) <= MaxFetches
                     /\ connects' = connects + 1
                     /\ req' = [req EXCEPT ![r] =
                          [rq EXCEPT !.pc = "connect", !.browser = connects + 1]]
                     /\ UNCHANGED <<fetch, permits, waiters>>
                ELSE \* getBrowser() returns the session at once
                     LET rb == [rq EXCEPT !.browser = browserInstance,
                                          !.blocker = blocker]
                     IN /\ Started + Len(q.url.items) <= MaxFetches
                        /\ req' = [req EXCEPT ![r] = ReqAfterStart(rb)]
                        /\ fetch' = FetchAfterStart(r, rb)
                        /\ permits' = SemAfterStart(r, rb).permits
                        /\ waiters' = SemAfterStart(r, rb).waiters
                        /\ UNCHANGED connects
  /\ UNCHANGED <<pages, browserInstance, blocker, blockerLoads, faults, proc>>

\* A caller of the library calls the exported getRawResponse({url}) itself:
\* the function awaits getBrowser() and only then looks at the url.
GetRawResponse(r, url) ==
  /\ proc # "exited"
  /\ req[r].pc = "new"
  /\ \A p \in Req : p < r => req[p].pc # "new"
  /\ Started + Len(url.items) <= MaxFetches
  /\ LET rq == [req[r] EXCEPT !.url = url, !.returnRaw = TRUE]
     IN IF browserInstance = 0 \/ blocker = 0
        THEN /\ connects' = connects + 1
             /\ req' = [req EXCEPT ![r] =
                  [rq EXCEPT !.pc = "connect", !.browser = connects + 1]]
             /\ UNCHANGED <<fetch, permits, waiters>>
        ELSE LET rb == [rq EXCEPT !.browser = browserInstance,
                                  !.blocker = blocker]
             IN /\ req' = [req EXCEPT ![r] = ReqAfterStart(rb)]
                /\ fetch' = FetchAfterStart(r, rb)
                /\ permits' = SemAfterStart(r, rb).permits
                /\ waiters' = SemAfterStart(r, rb).waiters
                /\ UNCHANGED connects
  /\ UNCHANGED <<pages, browserInstance, blocker, blockerLoads, cache, faults,
                 proc>>

\* ------------------------------------------------------ getBrowser (lib.ts)
\* connect() resolved: browserInstance = browser, then the blocker is loaded.
ConnectDone(r) ==
  /\ proc # "exited"
  /\ req[r].pc = "connect"
  /\ browserInstance' = req[r].browser
  /\ req' = [req EXCEPT ![r].pc = "blockerLoad"]
  /\ UNCHANGED <<fetch, permits, waiters, pages, blocker, connects,
                 blockerLoads, cache, faults, proc>>

\* connect() rejected: getBrowser throws and the handler answers 500.
ConnectFail(r) ==
  /\ proc # "exited"
  /\ req[r].pc = "connect"
  /\ faults > 0
  /\ faults' = faults - 1
  /\ req' = [req EXCEPT ![r] = Caught(req[r], Message("connect failed"))]
  /\ UNCHANGED <<fetch, permits, waiters, pages, browserInstance, blocker,
                 connects, blockerLoads, cache, proc>>

\* fromPrebuiltAdsAndTracking resolved: blocker is set and getBrowser returns
\* the module variables as they are now.
BlockerDone(r) ==
  /\ proc # "exited"
  /\ req[r].pc = "blockerLoad"
  /\ blockerLoads' = blockerLoads + 1
  /\ blocker' = blockerLoads + 1
  /\ LET rb == [req[r] EXCEPT !.browser = browserInstance,
                              !.blocker = blockerLoads + 1]
     IN /\ req' = [req EXCEPT ![r] = ReqAfterStart(rb)]
        /\ fetch' = FetchAfterStart(r, rb)
        /\ permits' = SemAfterStart(r, rb).permits
        /\ waiters' = SemAfterStart(r, rb).waiters
  /\ UNCHANGED <<pages, browserInstance, connects, cache, faults, proc>>

\* fromPrebuiltAdsAndTracking rejected: blocker stays null.
BlockerFail(r) ==
  /\ proc # "exited"
  /\ req[r].pc = "blockerLoad"
  /\ faults > 0
  /\ faults' = faults - 1
  /\ req' = [req EXCEPT ![r] = Caught(req[r], Message("blocker load failed"))]
  /\ UNCHANGED <<fetch, permits, waiters, pages, browserInstance, blocker,
                 connects, blockerLoads, cache, proc>>

\* ------------------------------------------------- one attempt (lib.ts)
Min(a, b) == IF a < b THEN a ELSE b

RECURSIVE Pow2(_)
Pow2(n) == IF n = 0 THEN 1 ELSE 2 * Pow2(n - 1)

\* A backoff without the cap.
BackoffUncapped(attempt) == BackoffBase * Pow2(attempt - 1)

\* A backoff whose exponent is the attempt instead of the attempt less one.
BackoffFromAttempt(attempt) == Min(BackoffBase * Pow2(attempt), BackoffCap)

\* const waitTime = Math.min(1000 * Math.pow(2, attempt - 1), 5000)
Backoff(attempt) == Min(BackoffBase * Pow2(attempt - 1), BackoffCap)

Error(kind, fr) == [kind |-> kind, at |-> fr.attempt]

\* The messages of lines 131 and 162 name the selector and the url.
NamesSelectorAndUrl(e) == e.kind \in {"ResponseTimeout", "PollTimeout"}

PageOf(t) == {pg \in pages : pg.owner = t /\ pg.attempt = fetch[t].attempt}

IsRaw(t) == req[t[1]].returnRaw

\* A finally block whose release is skipped when page.close() threw.
ReleasesPermitUnlessCloseThrew(closeThrew) == ~closeThrew

\* The finally block calls pageSemaphore.release() whether or not
\* page.close() threw.
ReleasesPermit(closeThrew) == TRUE

\* A retry loop that gives up one attempt early.
RetryStepOneShort(fr) ==
  IF fr.ok
  THEN [fr EXCEPT !.pc = "done"]
  ELSE IF fr.attempt >= maxRetries - 1
  THEN [fr EXCEPT !.pc = "failed"]
  ELSE [fr EXCEPT !.pc = "backoff", !.delays = Append(@, Backoff(fr.attempt))]

\* The catch and the loop of fetchSingleUrlWithRetry, entered when
\* fetchSingleUrl has returned or thrown.
RetryStep(fr) ==
  IF fr.ok
  THEN [fr EXCEPT !.pc = "done"]
  ELSE IF fr.attempt = maxRetries
  THEN [fr EXCEPT !.pc = "failed"]
  ELSE [fr EXCEPT !.pc = "backoff", !.delays = Append(@, Backoff(fr.attempt))]

\* fetchRawResponse is called by getRawResponse directly.
RawStep(fr) == [fr EXCEPT !.pc = IF fr.ok THEN "done" ELSE "failed"]

\* Promise.race in the place of Promise.any: the first rejection settles it.
AnyAfterRejectRace(fr, resp, nav, e) ==
  [fr EXCEPT !.resp = resp, !.nav = nav, !.stratErr = e, !.ok = FALSE,
             !.err = e, !.pc = "closing"]

\* Promise.any([responsePromise, gotoPromise]) once a strategy rejected:
\* it rejects, with an AggregateError, when the other has rejected too.
AnyAfterReject(fr, resp, nav, e) ==
  IF resp = "rejected" /\ nav = "rejected"
  THEN [fr EXCEPT !.resp = resp, !.nav = nav, !.stratErr = e, !.ok = FALSE,
                  !.err = Error("AggregateError", fr), !.pc = "closing"]
  ELSE [fr EXCEPT !.resp = resp, !.nav = nav, !.stratErr = e]

\* Promise.any once a strategy fulfilled with the html it found.
AnyAfterFulfil(t, fr, via) ==
  [fr EXCEPT !.ok = TRUE, !.pc = "closing",
             !.content = [url |-> req[t[1]].url.items[t[2]],
                          selector |-> req[t[1]].selector, via |-> via,
                          status |-> fr.content.status]]

ResultsOf(r, f) == [i \in DOMAIN req[r].url.items |-> f[<<r, i>>].content]

\* A combinator that settles with the first fetch that is done.
AnyDone(r, rq, f) == \E i \in DOMAIN rq.url.items : f[<<r, i>>].pc = "done"

\* Promise.all over the fetches of request r fulfils when each is done.
AllDone(r, rq, f) == \A i \in DOMAIN rq.url.items : f[<<r, i>>].pc = "done"

\* The end of an attempt of fetch t, whose record is fr: the permit is
\* released, the retry policy (or the raw caller) takes the outcome, and the
\* handler continues when Promise.all or getRawResponse settles.
EndAttempt(t, fr, closeThrew) ==
  LET r == t[1]
      rq == req[r]
      rel == ReleasesPermit(closeThrew)
      sem == IF rel THEN SemRelease(Sem(permits, waiters))
             ELSE Sem(permits, waiters)
      fr1 == [fr EXCEPT !.released = IF rel THEN @ + 1 ELSE @,
                        !.resp = "na", !.nav = "na", !.stratErr = NoError,
                        !.seen = FALSE]
      fr2 == IF rq.returnRaw THEN RawStep(fr1) ELSE RetryStep(fr1)
      f2 == Granted([fetch EXCEPT ![t] = fr2], sem)
      allDone == AllDone(r, rq, f2)
      key == CacheKey(rq.url, [options |-> rq.options, adblock |-> rq.adblock])
  IN /\ fetch' = f2
     /\ permits' = sem.permits
     /\ waiters' = sem.waiters
     /\ IF rq.pc = "fetching" /\ fr2.pc = "failed"
        THEN /\ req' = [req EXCEPT ![r] = Caught(rq, fr2.err)]
             /\ UNCHANGED cache
        ELSE IF rq.pc = "fetching" /\ allDone /\ rq.returnRaw
        THEN /\ req' = [req EXCEPT ![r] = Respond(rq, RawBytes(fr2.content))]
             /\ UNCHANGED cache
        ELSE IF rq.pc = "fetching" /\ allDone
        THEN /\ cache' = CacheSet(cache, key, ResultsOf(r, f2))
             /\ req' = [req EXCEPT ![r] =
                  Respond(rq, JsonSuccess(FALSE, ResultsOf(r, f2)))]
        ELSE UNCHANGED <<req, cache>>

Holding(t) == fetch[t].pc \in {"newPage", "blocking", "race", "rawGoto",
                               "rawBuffer", "closing"}

\* browser.newPage() resolved; blocker.enableBlockingInPage(page) is called.
NewPageDone(t) ==
  /\ proc # "exited"
  /\ fetch[t].pc = "newPage"
  /\ pages' = pages \cup
       {[owner |-> t, attempt |-> fetch[t].attempt, blocking |-> FALSE,
         browser |-> req[t[1]].browser]}
  /\ fetch' = [fetch EXCEPT ![t].pc = "blocking"]
  /\ UNCHANGED <<req, permits, waiters, browserInstance, blocker, connects,
                 blockerLoads, cache, faults, proc>>

\* browser.newPage() rejected: page is undefined, so finally only releases.
NewPageFail(t) ==
  /\ proc # "exited"
  /\ fetch[t].pc = "newPage"
  /\ faults > 0
  /\ faults' = faults - 1
  /\ EndAttempt(t, [fetch[t] EXCEPT !.ok = FALSE,
                      !.err = Error("NewPageError", fetch[t])], FALSE)
  /\ UNCHANGED <<pages, browserInstance, blocker, connects, blockerLoads, proc>>

\* enableBlockingInPage resolved.  Rendered: tryGetHtmlFromResponse registers
\* its listener and timer and page.goto starts.  Raw: page.goto starts.
EnableBlockingDone(t) ==
  /\ proc # "exited"
  /\ fetch[t].pc = "blocking"
  /\ pages' = (pages \ PageOf(t)) \cup
       {[pg EXCEPT !.blocking = TRUE] : pg \in PageOf(t)}
  /\ fetch' = [fetch EXCEPT ![t] =
       IF IsRaw(t)
       THEN [@ EXCEPT !.pc = "rawGoto"]
       ELSE [@ EXCEPT !.pc = "race", !.resp = "pending", !.nav = "navigating"]]
  /\ UNCHANGED <<req, permits, waiters, browserInstance, blocker, connects,
                 blockerLoads, cache, faults, proc>>

\* enableBlockingInPage rejected: finally closes the page.
EnableBlockingFail(t) ==
  /\ proc # "exited"
  /\ fetch[t].pc = "blocking"
  /\ faults > 0
  /\ faults' = faults - 1
  /\ fetch' = [fetch EXCEPT ![t] =
       [@ EXCEPT !.pc = "closing", !.ok = FALSE,
                 !.err = Error("BlockerError", fetch[t])]]
  /\ UNCHANGED <<req, permits, waiters, pages, browserInstance, blocker,
                 connects, blockerLoads, cache, proc>>

\* ------------------------------------------ the content-ready race (lib.ts)
\* responseHandler saw the document response of the url with the selector in
\* its body: resolve(text), and Promise.any fulfils with it.
ResponseFound(t) ==
  /\ proc # "exited"
  /\ fetch[t].pc = "race"
  /\ fetch[t].resp = "pending"
  /\ fetch' = [fetch EXCEPT ![t] =
       AnyAfterFulfil(t, [@ EXCEPT !.seen = TRUE], "response")]
  /\ UNCHANGED <<req, permits, waiters, pages, browserInstance, blocker,
                 connects, blockerLoads, cache, faults, proc>>

\* The document response of the navigation arrived with the selector in its
\* body, but response.url() is not the string the request gave (the browser
\* reports the serialized url, "https://example.com/" for
\* "https://example.com", or the url a redirect led to): the test
\* responseUrl === url fails and responseHandler does nothing.
ResponseIgnored(t) ==
  /\ proc # "exited"
  /\ fetch[t].pc = "race"
  /\ fetch[t].resp = "pending"
  /\ ~fetch[t].seen
  /\ fetch' = [fetch EXCEPT ![t].seen = TRUE]
  /\ UNCHANGED <<req, permits, waiters, pages, browserInstance, blocker,
                 connects, blockerLoads, cache, faults, proc>>

\* The timer of tryGetHtmlFromResponse fired: reject.
ResponseTimeout(t) ==
  /\ proc # "exited"
  /\ fetch[t].pc = "race"
  /\ fetch[t].resp = "pending"
  /\ faults > 0
  /\ faults' = faults - 1
  /\ fetch' = [fetch EXCEPT ![t] =
       AnyAfterReject(@, "rejected", @.nav, Error("ResponseTimeout", @))]
  /\ UNCHANGED <<req, permits, waiters, pages, browserInstance, blocker,
                 connects, blockerLoads, cache, proc>>

\* currentPage.goto resolved: getHtmlFromPageContent starts polling.
GotoDone(t) ==
  /\ proc # "exited"
  /\ fetch[t].pc = "race"
  /\ fetch[t].nav = "navigating"
  /\ fetch' = [fetch EXCEPT ![t].nav = "polling"]
  /\ UNCHANGED <<req, permits, waiters, pages, browserInstance, blocker,
                 connects, blockerLoads, cache, faults, proc>>

\* currentPage.goto rejected (navigation error or navigation timeout).
GotoFail(t) ==
  /\ proc # "exited"
  /\ fetch[t].pc = "race"
  /\ fetch[t].nav = "navigating"
  /\ faults > 0
  /\ faults' = faults - 1
  /\ fetch' = [fetch EXCEPT ![t] =
       AnyAfterReject(@, @.resp, "rejected", Error("NavigationError", @))]
  /\ UNCHANGED <<req, permits, waiters, pages, browserInstance, blocker,
                 connects, blockerLoads, cache, proc>>

\* page.$(selector) found the element: page.content() is the result.
PollFound(t) ==
  /\ proc # "exited"
  /\ fetch[t].pc = "race"
  /\ fetch[t].nav = "polling"
  /\ fetch' = [fetch EXCEPT ![t] = AnyAfterFulfil(t, @, "dom")]
  /\ UNCHANGED <<req, permits, waiters, pages, browserInstance, blocker,
                 connects, blockerLoads, cache, faults, proc>>

\* The polling loop ran out of time without finding the element.
PollTimeout(t) ==
  /\ proc # "exited"
  /\ fetch[t].pc = "race"
  /\ fetch[t].nav = "polling"
  /\ faults > 0
  /\ faults' = faults - 1
  /\ fetch' = [fetch EXCEPT ![t] =
       AnyAfterReject(@, @.resp, "rejected", Error("PollTimeout", @))]
  /\ UNCHANGED <<req, permits, waiters, pages, browserInstance, blocker,
                 connects, blockerLoads, cache, proc>>

\* ------------------------------------------------ fetchRawResponse (lib.ts)
\* page.goto resolved with a response: response.buffer() is awaited.
RawGotoDone(t, status) ==
  /\ proc # "exited"
  /\ fetch[t].pc = "rawGoto"
  /\ fetch' = [fetch EXCEPT ![t] =
       [@ EXCEPT !.pc = "rawBuffer", !.content.status = status]]
  /\ UNCHANGED <<req, permits, waiters, pages, browserInstance, blocker,
                 connects, blockerLoads, cache, faults, proc>>

\* page.goto resolved with null ("No response received") or rejected.
RawGotoFail(t, kind) ==
  /\ proc # "exited"
  /\ fetch[t].pc = "rawGoto"
  /\ faults > 0
  /\ faults' = faults - 1
  /\ fetch' = [fetch EXCEPT ![t] =
       [@ EXCEPT !.pc = "closing", !.ok = FALSE, !.err = Error(kind, fetch[t])]]
  /\ UNCHANGED <<req, permits, waiters, pages, browserInstance, blocker,
                 connects, blockerLoads, cache, proc>>

\* response.buffer() resolved: the RawResponse is returned.
RawBufferDone(t) ==
  /\ proc # "exited"
  /\ fetch[t].pc = "rawBuffer"
  /\ fetch' = [fetch EXCEPT ![t] = AnyAfterFulfil(t, @, "raw")]
  /\ UNCHANGED <<req, permits, waiters, pages, browserInstance, blocker,
                 connects, blockerLoads, cache, faults, proc>>

\* response.buffer() rejected.
RawBufferFail(t) ==
  /\ proc # "exited"
  /\ fetch[t].pc = "rawBuffer"
  /\ faults > 0
  /\ faults' = faults - 1
  /\ fetch' = [fetch EXCEPT ![t] =
       [@ EXCEPT !.pc = "closing", !.ok = FALSE, !.content = NoContent,
                 !.err = Error("BufferError", fetch[t])]]
  /\ UNCHANGED <<req, permits, waiters, pages, browserInstance, blocker,
                 connects, blockerLoads, cache, proc>>

\* ------------------------------------------------ the finally block (lib.ts)
\* page.close() resolved.
CloseDone(t) ==
  /\ proc # "exited"
  /\ fetch[t].pc = "closing"
  /\ pages' = pages \ PageOf(t)
  /\ EndAttempt(t, fetch[t], FALSE)
  /\ UNCHANGED <<browserInstance, blocker, connects, blockerLoads,
                 faults, proc>>

\* page.close() rejected: the error is logged and swallowed.  Whether the
\* browser closed the page all the same is not known to the program.
CloseFail(t, gone) ==
  /\ proc # "exited"
  /\ fetch[t].pc = "closing"
  /\ faults > 0
  /\ faults' = faults - 1
  /\ pages' = IF gone THEN pages \ PageOf(t) ELSE pages
  /\ EndAttempt(t, fetch[t], TRUE)
  /\ UNCHANGED <<browserInstance, blocker, connects, blockerLoads, proc>>

\* ------------------------------------------ fetchSingleUrlWithRetry (lib.ts)
\* The backoff timer fired: the loop starts the next attempt, which calls
\* pageSemaphore.acquire() anew.
BackoffDone(t) ==
  /\ proc # "exited"
  /\ fetch[t].pc = "backoff"
  /\ LET sem == SemAcquire(Sem(permits, waiters), t)
     IN /\ fetch' = Granted([fetch EXCEPT ![t] =
                       [@ EXCEPT !.pc = "waiting", !.attempt = @ + 1,
                                !.err = NoError]], sem)
        /\ permits' = sem.permits
        /\ waiters' = sem.waiters
  /\ UNCHANGED <<req, pages, browserInstance, blocker, connects, blockerLoads,
                 cache, faults, proc>>

\* ------------------------------------------------------------ environment
\* A request that fetched and stored its result.
Stored(rq) ==
  rq.pc = "done" /\ rq.resp.kind = "json" /\ rq.resp.success
    /\ ~rq.resp.fromCache

\* Time passes.
Tick ==
  /\ proc # "exited"
  /\ cache' = CacheAged(cache)
  /\ req' = [r \in Req |->
       IF Stored(req[r]) /\ req[r].stored <= TTL
       THEN [req[r] EXCEPT !.stored = @ + 1]
       ELSE req[r]]
  /\ UNCHANGED <<fetch, permits, waiters, pages, browserInstance, blocker,
                 connects, blockerLoads, faults, proc>>

\* process.exit(0): the process and all of its state are gone.
Exited ==
  /\ proc' = "exited"
  /\ req' = [r \in Req |-> [NewReq EXCEPT !.pc = "never"]]
  /\ fetch' = [t \in Tasks |-> NewFetch]
  /\ permits' = Capacity
  /\ waiters' = <<>>
  /\ pages' = {}
  /\ browserInstance' = 0
  /\ blocker' = 0
  /\ connects' = 0
  /\ blockerLoads' = 0
  /\ cache' = <<>>
  /\ faults' = 0

\* SIGINT or SIGTERM: cleanup() calls closeBrowser(), which closes the
\* browser and clears the module variables (or logs the failure), and then
\* process.exit(0).  Nothing that runs while the browser closes outlives
\* the exit.
Cleanup ==
  /\ proc = "running"
  /\ Exited

\* The steps of getBrowser() while the session is being initialized.
SessionStep ==
  \/ \E r \in Req : ConnectDone(r)
  \/ \E r \in Req : ConnectFail(r)
  \/ \E r \in Req : BlockerDone(r)
  \/ \E r \in Req : BlockerFail(r)

\* The steps of the server in which no outcome fails and no raw response
\* is fetched, when the requests carry the queries Q and the session is
\* initialized.
Render(Q) ==
  \/ \E r \in Req, q \in Q : HandleGet(r, q)
  \/ \E t \in Tasks : NewPageDone(t)
  \/ \E t \in Tasks : EnableBlockingDone(t)
  \/ \E t \in Tasks : ResponseFound(t)
  \/ \E t \in Tasks : GotoDone(t)
  \/ \E t \in Tasks : PollFound(t)
  \/ \E t \in Tasks : CloseDone(t)
  \/ Tick
  \/ Cleanup

\* The steps in which no outcome fails.
Succeed(Q) ==
  \/ Render(Q)
  \/ \E t \in Tasks, status \in UpstreamStatus : RawGotoDone(t, status)
  \/ \E t \in Tasks : RawBufferDone(t)

\* The steps of a rendered fetch in which an outcome fails, and the retry
\* that follows.
RenderFail ==
  \/ \E t \in Tasks : NewPageFail(t)
  \/ \E t \in Tasks : EnableBlockingFail(t)
  \/ \E t \in Tasks : ResponseTimeout(t)
  \/ \E t \in Tasks : GotoFail(t)
  \/ \E t \in Tasks : PollTimeout(t)
  \/ \E t \in Tasks, gone \in BOOLEAN : CloseFail(t, gone)
  \/ \E t \in Tasks : BackoffDone(t)

\* The steps in which an outcome fails.
Fail ==
  \/ RenderFail
  \/ \E t \in Tasks, kind \in {"NoResponse", "NavigationError"} :
       RawGotoFail(t, kind)
  \/ \E t \in Tasks : RawBufferFail(t)

Step(Q) == Succeed(Q) \/ Fail

\* Requests that differ in url and mode: one selector, adblock left out.
FetchQueries ==
  {q \in Queries : q.selector \in {Undefined, <<"a">>} /\ q.adblock = Undefined}

Next == SessionStep \/ Step(FetchQueries)

Spec == Init /\ [][Next]_vars

\* The server, and callers that use the exported getRawResponse directly.
NextLib ==
  \/ \E r \in Req, url \in UrlParams \ {NoUrl} : GetRawResponse(r, url)
  \/ Next

SpecLib == Init /\ [][NextLib]_vars

\* One request on an initialized session, and document responses that the
\* browser reports under another url string than the requested one.
InitIntercept == Start(1, MaxFaults, 1)

NextIntercept ==
  \/ \E t \in Tasks : ResponseIgnored(t)
  \/ Step(FetchQueries)

SpecIntercept == InitIntercept /\ [][NextIntercept]_vars

\* One request, whose fetches may fail as often as the retry policy allows.
InitRetry == Start(1, maxRetries, 0)

SpecRetry == InitRetry /\ [][Next]_vars

\* Well-formed rendered requests for one url that differ in adblock.
CacheQueries ==
  {q \in Queries :
     /\ q.url.items # <<>> /\ ~q.url.isArray
     /\ q.adblock \in {Undefined, <<"0">>}
     /\ q.raw = Undefined /\ q.selector = <<"a">>}

\* The browser session is up, an earlier raw request has initialized it,
\* and no outcome fails.
InitCache == Start(NumReq + 1, 0, 1)

NextCache == Render(CacheQueries)

SpecCache == InitCache /\ [][NextCache]_vars

\* Well-formed rendered requests for one url or for the url list.
StoreQueries ==
  {q \in Queries :
     /\ q.url.items # <<>>
     /\ q.adblock = Undefined
     /\ q.raw = Undefined /\ q.selector = <<"a">>}

\* Two rendered requests on an initialized session, whose fetches may fail
\* as often as the retry policy allows: browser.newPage() rejects, or both
\* strategies time out.
InitStore == Start(2, maxRetries, 1)

NextStore ==
  \/ Render(StoreQueries)
  \/ \E t \in Tasks : NewPageFail(t)
  \/ \E t \in Tasks : ResponseTimeout(t)
  \/ \E t \in Tasks : PollTimeout(t)
  \/ \E t \in Tasks : BackoffDone(t)

SpecStore == InitStore /\ [][NextStore]_vars

\* The delay computation by itself, for attempt numbers beyond the default
\* maxRetries: a retry loop that has failed attempt n computes the delay
\* and goes on to attempt n + 1.
InitBackoff ==
  \E n \in 1..MaxAttempt :
    /\ req = [r \in Req |-> [NewReq EXCEPT !.pc = "never"]]
    /\ fetch = [t \in Tasks |->
         IF t = <<1, 1>>
         THEN [NewFetch EXCEPT !.pc = "delay", !.attempt = n]
         ELSE NewFetch]
    /\ permits = Capacity
    /\ waiters = <<>>
    /\ pages = {}
    /\ browserInstance = 1
    /\ blocker = 1
    /\ connects = 1
    /\ blockerLoads = 1
    /\ cache = <<>>
    /\ faults = 0
    /\ proc = "running"

WaitTime(t) ==
  /\ fetch[t].pc = "delay"
  /\ fetch[t].attempt <= MaxAttempt
  /\ fetch' = [fetch EXCEPT ![t] =
       [@ EXCEPT !.delays = Append(@, Backoff(fetch[t].attempt)),
                 !.attempt = @ + 1]]
  /\ UNCHANGED <<req, permits, waiters, pages, browserInstance, blocker,
                 connects, blockerLoads, cache, faults, proc>>

NextBackoff == \E t \in Tasks : WaitTime(t)

SpecBackoff == InitBackoff /\ [][NextBackoff]_vars

\* Well-formed rendered requests for one url or for the list of urls.
LiveQueries ==
  {q \in Queries :
     /\ q.url.items # <<>>
     /\ q.adblock = Undefined
     /\ q.raw = Undefined /\ q.selector = <<"a">>}

\* The steps the event loop takes by itself: promises that settle and
\* timers that fire.
Progress ==
  \/ \E t \in Tasks : NewPageDone(t)
  \/ \E t \in Tasks : EnableBlockingDone(t)
  \/ \E t \in Tasks : ResponseFound(t)
  \/ \E t \in Tasks : GotoDone(t)
  \/ \E t \in Tasks : PollFound(t)
  \/ \E t \in Tasks : CloseDone(t)
  \/ RenderFail

\* One request arrives, or not, at a server that is not shut down; every
\* pending promise settles and every timer fires, and outcomes may fail as
\* often as the retry policy allows.
InitLive == Start(1, maxRetries, 1)

NextLive ==
  \/ \E r \in Req, q \in LiveQueries : HandleGet(r, q)
  \/ Tick
  \/ Progress

SpecLive == InitLive /\ [][NextLive]_vars /\ WF_vars(Progress)

\* Well-formed rendered requests for one url that differ in the selector.
SelectorQueries ==
  {q \in Queries :
     /\ q.url.items # <<>> /\ ~q.url.isArray
     /\ q.adblock = Undefined
     /\ q.raw = Undefined /\ q.selector \in {<<"a">>, <<"b">>}}

NextSelector == Render(SelectorQueries)

SpecSelector == InitCache /\ [][NextSelector]_vars


\* ================================================================ claims
Holders == {t \in Tasks : Holding(t)}

Rendered == {t \in Tasks : fetch[t].pc # "none" /\ ~IsRaw(t)}

\* C1: with capacity K, the number of open pages never exceeds K, and the
\* number of outstanding permits stays within 0..K.
C1_OpenPagesWithinCapacity ==
  /\ Cardinality(pages) <= Capacity
  /\ Cardinality(Holders) \in 0..Capacity
  /\ permits \in 0..Capacity

\* C2: every attempt that acquired a permit releases it exactly once, also
\* when the fetch failed or closing the page threw; no permit leaks: a fetch
\* has one more acquisition than releases exactly while its attempt runs, and
\* the free permits with the running attempts make up the capacity.
C2_PermitReleasedExactlyOnce ==
  /\ \A t \in Tasks :
       /\ Holding(t) => fetch[t].acquired = fetch[t].released + 1
       /\ ~Holding(t) => fetch[t].acquired = fetch[t].released
       /\ fetch[t].pc \notin {"none", "waiting"} =>
            fetch[t].acquired = fetch[t].attempt
  /\ permits + Cardinality(Holders) = Capacity

\* An attempt whose page.close() threw and left the page open has ended
\* with its permit released.
C2_Witness ==
  \E t \in Tasks : \E pg \in pages :
    /\ pg.owner = t
    /\ ~Holding(t)
    /\ fetch[t].acquired >= 1
    /\ fetch[t].released = fetch[t].acquired

\* C3: the browser and the blocker are created at most once per process,
\* and every request that obtained them obtained the same ones.
C3_SessionCreatedOnce ==
  /\ connects <= 1
  /\ blockerLoads <= 1
  /\ \A r1, r2 \in Req :
       req[r1].blocker # 0 /\ req[r2].blocker # 0 =>
         /\ req[r1].browser = req[r2].browser
         /\ req[r1].blocker = req[r2].blocker

\* The earlier requests, identical to request r as it is in the next state,
\* that succeeded by fetching no more than TTL ago.
FreshIdentical(r) ==
  {p \in Req \ {r} :
     /\ Stored(req[p])
     /\ req[p].stored <= TTL
     /\ req[p].url = req'[r].url
     /\ req[p].selector = req'[r].selector
     /\ req[p].options = req'[r].options
     /\ req[p].adblockParam = req'[r].adblockParam
     /\ req[p].returnRaw = req'[r].returnRaw}

\* The handler has taken request r in this step.
Handled(r) == req[r].pc = "new" /\ req'[r].pc # "new" /\ proc' = "running"

\* What a request that is served from the cache leaves alone.
NoFetchStarted ==
  UNCHANGED <<fetch, permits, waiters, pages, browserInstance, blocker,
              connects, blockerLoads>>

\* C4 as stated: a rendered request identical to one that succeeded within
\* the TTL is answered at once with fromCache true and the same data, and
\* acquires no permit and opens no page.
C4_HitWithinTtl ==
  [][\A r \in Req :
       Handled(r) /\ ~req'[r].returnRaw /\ FreshIdentical(r) # {} =>
         /\ req'[r].pc = "done"
         /\ req'[r].resp.success
         /\ req'[r].resp.fromCache
         /\ \E p \in FreshIdentical(r) : req'[r].resp.data = req[p].resp.data
         /\ NoFetchStarted]_vars

\* C4: a well-formed rendered request that arrives while the cache holds an
\* entry no older than the TTL under its key (url, options, adblock flag) is
\* answered at once with fromCache true and the data of that entry, and
\* acquires no permit, opens no page and does not touch the browser session.
C4_HitWhileEntryCached ==
  [][\A r \in Req : \A i \in DOMAIN cache :
       /\ Handled(r)
       /\ ~req'[r].returnRaw
       /\ req'[r].url.items # <<>>
       /\ Truthy(req'[r].selector)
       /\ cache[i].key = CacheKey(req'[r].url,
                                  [options |-> req'[r].options,
                                   adblock |-> req'[r].adblock])
       /\ cache[i].age <= TTL
       => /\ req'[r].pc = "done"
          /\ req'[r].resp.success
          /\ req'[r].resp.fromCache
          /\ req'[r].resp.data = cache[i].value
          /\ NoFetchStarted]_vars

\* The last request was served from the cache while the fetch of the
\* request before it held a permit and none was free: no outcome fails under
\* SpecCache, so that fetch has held its permit since its request arrived.
C4_Witness ==
  /\ req[NumReq + 1].pc = "done"
  /\ req[NumReq + 1].resp.fromCache
  /\ req[NumReq + 1].resp.data # <<>>
  /\ Holding(<<NumReq, 1>>)
  /\ permits = 0

\* The adblock parameter of the request turns blocking off.
AdblockOff(rq) ==
  rq.adblockParam # Undefined
    /\ toLowerCase(rq.adblockParam) \in {StrFalse, StrZero}

\* C5: when the adblock parameter is "false" or "0" in any case, the page of
\* the request has no blocking enabled; when it is absent or anything else,
\* blocking is enabled on the page before it navigates.
C5_AdblockParameterHonoured ==
  \A pg \in pages :
    LET t == pg.owner
    IN /\ AdblockOff(req[t[1]]) => ~pg.blocking
       /\ ~AdblockOff(req[t[1]]) /\ pg.attempt = fetch[t].attempt
            /\ fetch[t].pc \in {"race", "rawGoto", "rawBuffer"} => pg.blocking

\* C6: a rendered fetch that succeeds on attempt j + 1 has made exactly
\* j + 1 attempts and waited min(1000 * 2^(i-1), 5000) ms after failed
\* attempt i, for i = 1..j, and returns the content of its url.
C6_SuccessAfterBackoffs ==
  \A t \in Rendered :
    fetch[t].pc = "done" =>
      /\ fetch[t].attempt \in 1..maxRetries
      /\ fetch[t].acquired = fetch[t].attempt
      /\ fetch[t].delays = SubSeq(<<1000, 2000>>, 1, fetch[t].attempt - 1)
      /\ fetch[t].content.via \in {"response", "dom"}
      /\ fetch[t].content.url = req[t[1]].url.items[t[2]]

\* A fetch has succeeded on its third attempt after waiting 1000 and 2000.
C6_Witness ==
  \E t \in Rendered :
    /\ fetch[t].pc = "done"
    /\ fetch[t].attempt = 3
    /\ fetch[t].delays = <<1000, 2000>>

\* C7: a rendered fetch fails only when all three attempts have failed: no
\* attempt follows the third, no backoff follows it, and the error given to
\* the caller is the error of the third attempt.
C7_FailsAfterThreeAttempts ==
  /\ \A t \in Rendered :
       /\ fetch[t].attempt <= 3
       /\ fetch[t].pc = "failed" =>
            /\ fetch[t].attempt = 3
            /\ fetch[t].acquired = 3
            /\ fetch[t].released = 3
            /\ Len(fetch[t].delays) = 2
            /\ fetch[t].err.at = 3
  /\ \A r \in Req :
       req[r].pc = "done" /\ req[r].resp.status = 500 /\ ~req[r].returnRaw
         /\ fetch[<<r, 1>>].pc # "none" =>
           \E i \in DOMAIN req[r].url.items :
             /\ fetch[<<r, i>>].pc = "failed"
             /\ req[r].resp.error = fetch[<<r, i>>].err

\* A rendered fetch has failed and its request was answered with its error.
C7_Witness ==
  \E t \in Rendered :
    /\ fetch[t].pc = "failed"
    /\ req[t[1]].pc = "done"
    /\ req[t[1]].resp.status = 500
    /\ req[t[1]].resp.error = fetch[t].err

\* C8: a failed raw fetch is retried like a rendered one: it fails only
\* after three attempts.
C8_RawFetchRetried ==
  \A t \in Tasks :
    IsRaw(t) /\ fetch[t].pc = "failed" => fetch[t].attempt = maxRetries

\* C9: within an attempt the two strategies race and the first to succeed
\* gives the content; the attempt fails only when both have failed.
C9_FirstSuccessWins ==
  \A t \in Rendered :
    /\ fetch[t].pc = "race" =>
         ~(fetch[t].resp = "rejected" /\ fetch[t].nav = "rejected")
    /\ fetch[t].pc = "closing" /\ fetch[t].resp # "na" =>
         /\ ~fetch[t].ok =>
              fetch[t].resp = "rejected" /\ fetch[t].nav = "rejected"
         /\ fetch[t].ok /\ fetch[t].content.via = "response" =>
              fetch[t].resp = "pending"
         /\ fetch[t].ok /\ fetch[t].content.via = "dom" =>
              fetch[t].nav = "polling"
         /\ fetch[t].ok => fetch[t].content.via \in {"response", "dom"}

\* An attempt has succeeded through the DOM after the response strategy
\* had failed.
C9_Witness ==
  \E t \in Rendered :
    /\ fetch[t].pc = "closing"
    /\ fetch[t].ok
    /\ fetch[t].resp = "rejected"
    /\ fetch[t].content.via = "dom"

\* C10: when both strategies have failed, the error of the attempt is the
\* last strategy error observed, a timeout error that names the selector and
\* the url, and not a generic aggregate error.
C10_LastStrategyErrorRaised ==
  \A t \in Rendered :
    fetch[t].pc = "closing" /\ fetch[t].resp = "rejected"
      /\ fetch[t].nav = "rejected" =>
        /\ fetch[t].err = fetch[t].stratErr
        /\ fetch[t].err.kind # "AggregateError"


\* A raw request for a list of urls, once it has been taken up.
RawList(r) ==
  req[r].pc \notin {"new", "never"} /\ req[r].returnRaw /\ req[r].url.isArray

\* C11: a raw request whose url is a list is rejected with a validation error
\* before any network action, in the handler and in getRawResponse: it is
\* never found waiting for the browser session, it has obtained no browser
\* and no blocker, and none of its urls is fetched.
C11_RawListRejectedFirst ==
  \A r \in Req :
    RawList(r) =>
      /\ req[r].pc = "done"
      /\ ~req[r].resp.success
      /\ req[r].resp.kind = "json"
      /\ req[r].browser = 0 /\ req[r].blocker = 0
      /\ \A i \in 1..MaxUrls : fetch[<<r, i>>].pc = "none"

\* A rendered request that names a url and no selector, once answered.
NoSelector(r) ==
  /\ req[r].pc = "done"
  /\ ~req[r].returnRaw
  /\ req[r].url.items # <<>>
  /\ ~Truthy(req[r].selector)

\* C12: a rendered request with a url and no selector is fetched and
\* succeeds once navigation settles, with no ready-check: it is answered
\* with the content of its urls unless a fetch failed at run time.
C12_NoSelectorFetches ==
  \A r \in Req :
    NoSelector(r) =>
      /\ \A i \in DOMAIN req[r].url.items : fetch[<<r, i>>].pc # "none"
      /\ req[r].resp.success \/ req[r].resp.status = 500

\* The fetches blocked in acquire().
Waiting == {t \in Tasks : fetch[t].pc = "waiting"}

\* s is the beginning of the sequence w.
IsPrefix(s, w) == Len(s) <= Len(w) /\ SubSeq(w, 1, Len(s)) = s

\* C13: waiting acquire() callers get their permits in the order in which
\* they began to wait: only the head of the queue is granted, the callers
\* behind it keep their order, later callers join at the end, and no permit
\* is free while a caller waits, so a later caller never overtakes.
C13_FifoGrants ==
  [][proc' = "running" =>
       /\ Waiting' = Range(waiters')
       /\ Len(waiters') = Cardinality(Waiting')
       /\ waiters' # <<>> => permits' = 0
       /\ \A t \in Waiting \ Waiting' : t = Head(waiters)
       /\ IF Waiting \ Waiting' = {}
          THEN IsPrefix(waiters, waiters')
          ELSE IsPrefix(Tail(waiters), waiters')]_vars

\* A fetch was handed its permit from the head of the queue while another
\* caller, which had begun to wait after it, was left waiting.
C13_Witness ==
  \E t \in Tasks : Holding(t) /\ fetch[t].behind >= 1

\* A fetch of request r failed at run time, or its browser session did.
FailedAtRunTime(r) ==
  \/ \E i \in 1..MaxUrls : fetch[<<r, i>>].pc = "failed"
  \/ req[r].pc = "done" /\ req[r].resp.error.kind
       \in {"connect failed", "blocker load failed"}

\* The answers of the handler: a request that fails gets the JSON envelope
\* {success: false, error}, with status 500 when it failed at run time, and
\* bytes are sent only for a raw request whose fetch returned a response.
EnvelopeOnFailure(r) ==
  /\ req[r].resp.kind \in {"json", "raw"}
  /\ FailedAtRunTime(r) =>
       /\ req[r].pc = "done"
       /\ req[r].resp.kind = "json"
       /\ ~req[r].resp.success
       /\ req[r].resp.status = 500
       /\ req[r].resp.error # NoError
  /\ req[r].resp.kind = "json" /\ ~req[r].resp.success =>
       /\ req[r].resp.error # NoError
       /\ req[r].resp.data = <<>>
       /\ req[r].resp.status \in {200, 400, 500}
  /\ req[r].resp.kind = "raw" =>
       /\ req[r].returnRaw
       /\ fetch[<<r, 1>>].pc = "done"
       /\ fetch[<<r, 1>>].content.via = "raw"
       /\ req[r].resp.data = <<fetch[<<r, 1>>].content>>
       /\ req[r].resp.status = fetch[<<r, 1>>].content.status

KeyOf(r) ==
  CacheKey(req'[r].url,
           [options |-> req'[r].options, adblock |-> req'[r].adblock])

\* The handler has taken the well-formed rendered request r in this step.
HandledRendered(r) ==
  /\ Handled(r)
  /\ ~req'[r].returnRaw
  /\ req'[r].url.items # <<>>
  /\ Truthy(req'[r].selector)

\* C15: the cache never returns an entry whose age exceeds the TTL: what is
\* served from the cache is the value of an entry no older than the TTL, and
\* a request that arrives when the entry under its key is older is a miss,
\* starts a fresh fetch, and leaves no such entry behind.
C15_NothingPastTtl ==
  [][\A r \in Req :
       /\ Handled(r) /\ req'[r].resp.fromCache =>
            \E i \in DOMAIN cache :
              /\ cache[i].key = KeyOf(r)
              /\ cache[i].age <= TTL
              /\ req'[r].resp.data = cache[i].value
       /\ \A i \in DOMAIN cache :
            HandledRendered(r) /\ cache[i].key = KeyOf(r)
              /\ cache[i].age > TTL =>
                /\ ~req'[r].resp.fromCache
                /\ req'[r].pc = "fetching"
                /\ fetch'[<<r, 1>>].pc \in {"waiting", "newPage"}
                /\ \A j \in DOMAIN cache' : cache'[j].key # KeyOf(r)]_vars

\* A request met an expired entry under its key, fetched afresh and was
\* answered with fromCache false.
C15_Witness ==
  \E r \in Req :
    /\ req[r].expired
    /\ ~req[r].returnRaw
    /\ req[r].pc = "done"
    /\ req[r].resp.success
    /\ ~req[r].resp.fromCache
    /\ fetch[<<r, 1>>].pc = "done"

\* C16: what a rendered request is served from the cache was fetched for its
\* own urls and its own selector: no request is answered with content that
\* was cached for another selector.
C16_CachedForSameSelector ==
  \A r \in Req :
    req[r].pc = "done" /\ req[r].resp.fromCache =>
      /\ Len(req[r].resp.data) = Len(req[r].url.items)
      /\ \A i \in DOMAIN req[r].resp.data :
           /\ req[r].resp.data[i].url = req[r].url.items[i]
           /\ req[r].resp.data[i].selector = req[r].selector

\* C17: in an attempt where the document response of the navigated url had
\* an element matching the selector in its body, the race has resolved with
\* that body, whatever the navigation and the DOM polling have reached.
C17_InterceptionResolves ==
  \A t \in Rendered :
    fetch[t].seen =>
      /\ fetch[t].pc = "closing"
      /\ fetch[t].ok
      /\ fetch[t].content.via = "response"

\* The attempt of fetch t that runs now has opened its page.
HasPage(t) ==
  fetch[t].pc \in {"blocking", "race", "rawGoto", "rawBuffer", "closing"}

\* C18: each attempt opens its own new page, and the page of a failed
\* attempt is closed before the next attempt of the fetch opens its page:
\* once an attempt has its page, that is the only open page of the fetch,
\* and no open page belongs to an attempt the fetch has not made.
C18_OldPageClosedBeforeRetry ==
  \A pg \in pages :
    /\ pg.attempt \in 1..fetch[pg.owner].attempt
    /\ HasPage(pg.owner) => pg.attempt = fetch[pg.owner].attempt
    /\ \A other \in pages :
         other.owner = pg.owner => other.attempt = pg.attempt

\* Request r was accepted and is being served.
Pending(r) == req[r].pc \in {"connect", "blockerLoad", "fetching"}

ExpectedDelay(n) ==
  IF n = 1 THEN 1000
  ELSE IF n = 2 THEN 2000
  ELSE IF n = 3 THEN 4000
  ELSE 5000

\* C20: the delay after failed attempt n is min(1000 * 2^(n-1), 5000):
\* 1000 after attempt 1, doubling per attempt up to the cap, non-decreasing
\* in n and never above 5000.
C20_BackoffDelays ==
  \A t \in Tasks :
    fetch[t].pc = "delay" =>
      LET d == fetch[t].delays
          first == fetch[t].attempt - Len(d)
      IN /\ first >= 1
         /\ \A i \in DOMAIN d :
              /\ d[i] = ExpectedDelay(first + i - 1)
              /\ d[i] >= 1000 /\ d[i] <= 5000
              /\ first = 1 /\ i = 1 => d[i] = 1000
         /\ \A i \in 1..(Len(d) - 1) :
              /\ d[i] <= d[i + 1]
              /\ d[i + 1] = 2 * d[i] \/ d[i + 1] = 5000

\* The delays after attempts 1 to 5 have been computed: 1000, 2000, 4000,
\* and 5000 from the fourth on.
C20_Witness ==
  \E t \in Tasks :
    /\ fetch[t].pc = "delay"
    /\ Len(fetch[t].delays) >= 5
    /\ SubSeq(fetch[t].delays, 1, 5) = <<1000, 2000, 4000, 5000, 5000>>

\* The open pages that fetch t opened, in any of its attempts.
PagesOf(t) == {pg \in pages : pg.owner = t}

\* C21: between two attempts of a fetch, for the whole backoff delay, the
\* fetch holds no permit (its releases equal its acquires) and none of its
\* pages is open.
C21_NothingHeldDuringBackoff ==
  \A t \in Tasks :
    fetch[t].pc = "backoff" =>
      /\ fetch[t].acquired = fetch[t].released
      /\ PagesOf(t) = {}

\* Request r, which missed the cache, is answered in this step with the
\* result it fetched.
Stores(r) == Pending(r) /\ req'[r].pc = "done" /\ req'[r].resp.success

\* Request r, which missed the cache, is answered in this step with an error.
Fails(r) == Pending(r) /\ req'[r].pc = "done" /\ ~req'[r].resp.success

\* The entries of cache c that get() can return, least recently used first.
Reachable(c) == SelectSeq(c, LAMBDA e : e.age <= TTL)

\* C22: a rendered request that fails leaves the cache unchanged, and the
\* store is performed only after every url of the request has succeeded,
\* with the complete result array under the request's key: a lookup that
\* misses changes nothing that get() can return, after the lookup the cache
\* changes only with the clock, with the lookup of another request or with
\* the store of a request whose fetches are all done, and that store puts
\* the contents of all the urls, in their order, under the request's key.
C22_StoreOnlyAfterAllSucceed ==
  [][proc' = "running" =>
       /\ \A r \in Req :
            /\ Fails(r) => cache' = cache
            /\ HandledRendered(r) /\ ~req'[r].resp.fromCache =>
                 Reachable(cache') = Reachable(cache)
            /\ Stores(r) =>
                 /\ Len(req'[r].resp.data) = Len(req[r].url.items)
                 /\ \A i \in DOMAIN req[r].url.items :
                      /\ fetch'[<<r, i>>].pc = "done"
                      /\ req'[r].resp.data[i] = fetch'[<<r, i>>].content
                      /\ req'[r].resp.data[i].url = req[r].url.items[i]
                 /\ cache' # <<>>
                 /\ cache'[Len(cache')] =
                      [key |-> CacheKey(req[r].url,
                                        [options |-> req[r].options,
                                         adblock |-> req[r].adblock]),
                       value |-> req'[r].resp.data, age |-> 0]
       /\ cache' # cache =>
            \/ \E r \in Req : Stores(r)
            \/ \E r \in Req : Handled(r)
            \/ cache' = [i \in DOMAIN cache |->
                 [cache[i] EXCEPT !.age = IF @ <= TTL THEN @ + 1 ELSE @]]]_vars

\* A request for two urls has failed, one of its urls having exhausted its
\* retries and the other having succeeded, and the cache still holds the
\* entry of an earlier request and nothing of the failed one.
C22_Witness ==
  \E r \in Req :
    /\ req[r].pc = "done"
    /\ ~req[r].resp.success
    /\ \E i, j \in DOMAIN req[r].url.items :
         /\ fetch[<<r, i>>].pc = "failed"
         /\ fetch[<<r, i>>].attempt = maxRetries
         /\ fetch[<<r, j>>].pc = "done"
    /\ cache # <<>>
    /\ \A k \in DOMAIN cache : cache[k].key.url # req[r].url

============================================================================
